---- MODULE Spec2Model ----
(***************************************************************************)
(* Model of src/reporting_web_services.py: the "Generate Report" handler   *)
(* get_message_trace_report and its worker background_task.  Every click   *)
(* starts one worker thread (one "submission"); the workers share the      *)
(* status label, the file system and the wall clock.                       *)
(*                                                                         *)
(* Environment assumptions of the model:                                   *)
(*   - Tk calls made from the worker thread behave as on the main thread;  *)
(*   - a destination folder that exists is a writable directory, so the    *)
(*     open()/write() of line 120-121 does not raise; os.makedirs may;     *)
(*   - the wall clock has one-second resolution and does not go back.      *)
(***************************************************************************)
EXTENDS Integers, Sequences, FiniteSets, TLC

VARIABLES pc, form, token, response, dialogs, http, written,
          label, folders, files, clock

vars == <<pc, form, token, response, dialogs, http, written,
          label, folders, files, clock>>

(* ------------------------------ bounds -------------------------------- *)

\* number of clicks on "Generate Report" (one worker thread each)
NumSubmissions == 2

\* last second the wall clock reaches
MaxClock == 1

Submissions == 1..NumSubmissions

(* ------------------------- strings and dates -------------------------- *)

\* A text field's content is a sequence of characters.
RECURSIVE Join(_)
Join(t) == IF t = <<>> THEN "" ELSE Head(t) \o Join(Tail(t))

IsSpace(c) == c = " "

RECURSIVE LStrip(_)
LStrip(t) == IF t # <<>> /\ IsSpace(Head(t)) THEN LStrip(Tail(t)) ELSE t

RECURSIVE RStrip(_)
RStrip(t) ==
    IF t # <<>> /\ IsSpace(t[Len(t)]) THEN RStrip(SubSeq(t, 1, Len(t) - 1)) ELSE t

\* variant: the field is used as typed
Strip_None(t) == t

\* str.strip()
Strip(t) == RStrip(LStrip(t))

\* zero-padded two-digit field of strftime (%m, %d, %H, %M, %S)
Pad2(n) == IF n < 10 THEN "0" \o ToString(n) ELSE ToString(n)

\* date.strftime('%Y-%m-%d'); a date is <<year, month, day>>
StrfDate(d) == ToString(d[1]) \o "-" \o Pad2(d[2]) \o "-" \o Pad2(d[3])

\* datetime.now().strftime('%Y%m%d_%H%M%S'); the clock counts the seconds
\* of one day, 2025-01-01
StrfNow(t) ==
    "20250101_" \o Pad2((t \div 3600) % 24) \o Pad2((t \div 60) % 60) \o Pad2(t % 60)

\* os.path.join(save_path, name)
PathJoin(dir, name) == dir \o "\\" \o name

(* ------------------------------ inputs -------------------------------- *)

\* contents typed into an Entry widget
Texts == { <<>>, <<" ">>, <<" ", "a", " ">> }

\* values of the DateEntry widgets
StartDates == { <<2025, 1, 5>> }
EndDates == { <<2025, 1, 14>> }

\* values of the read-only combobox ("" when nothing was selected)
ReportTypes == { "", "Message Trace", "Message Trace Detail" }

\* default value of save_path_var
DefaultSavePath == "C:\\temp\\ReportingWebServices-logs"

SavePaths == { "", DefaultSavePath }

AllForms ==
    [ app_id : Texts, tenant_id : Texts, app_secret : Texts,
      start_date : StartDates, end_date : EndDates,
      save_path : SavePaths, report_type : ReportTypes,
      sender_address : Texts, recipient_address : Texts,
      message_trace_id : Texts ]

NoForm ==
    [ app_id |-> <<>>, tenant_id |-> <<>>, app_secret |-> <<>>,
      start_date |-> <<2025, 1, 5>>, end_date |-> <<2025, 1, 14>>,
      save_path |-> "", report_type |-> "",
      sender_address |-> <<>>, recipient_address |-> <<>>,
      message_trace_id |-> <<>> ]

FilledText == <<" ", "a", " ">>

\* the forms submitted while several submissions overlap
SomeForms ==
    { f \in AllForms :
        /\ f.tenant_id = FilledText /\ f.app_secret = FilledText
        /\ f.recipient_address = FilledText /\ f.message_trace_id = FilledText
        /\ f.sender_address = FilledText
        /\ f.save_path = DefaultSavePath
        /\ f.report_type = "Message Trace"
        /\ f.app_id \in { <<" ">>, FilledText } }

\* bodies the reporting endpoint answers with
Bodies == { "<feed>1</feed>", "<feed>2</feed>" }

\* the text of an error answer
ErrorTexts == { "<error>denied</error>" }

\* status codes of the endpoints
OkStatus == 200
ErrorStatuses == { 204, 401 }

NoResponse == [ status |-> 0, content |-> "" ]

\* JSON bodies the identity endpoint answers with
TokenJsons ==
    { [ access_token |-> "tokA" ], [ access_token |-> "" ],
      [ error |-> "invalid_client" ] }

(* --------------------------- the data model --------------------------- *)

ErrorDialog(msg) == [ kind |-> "error", title |-> "Error", message |-> msg ]
InfoDialog(msg) == [ kind |-> "info", title |-> "Success", message |-> msg ]

\* variant: every report type but "Message Trace" is taken for detail mode
DetailMode_NotTrace(f) == f.report_type # "Message Trace"

\* lines 58, 95: report_type == "Message Trace Detail"
DetailMode(f) == f.report_type = "Message Trace Detail"

\* line 85: dict.get(key), <<>> standing for None
DictGet(d, key) == IF key \in DOMAIN d THEN <<d[key]>> ELSE <<>>

\* variant: token is None
NotToken_NoneOnly(r) == r = <<>>

\* line 87: not token
NotToken(r) == r = <<>> \/ r[1] = ""

\* variant: only the 4xx/5xx statuses count as a failure
ReportFailed_ErrorsOnly(st) == st >= 400

\* line 114: response.status_code != 200
ReportFailed(st) == st # OkStatus

\* lines 45-65: the message of the first failed presence check, "" if none
ValidationError(f) ==
    IF \/ Join(Strip(f.app_id)) = ""
       \/ Join(Strip(f.tenant_id)) = ""
       \/ Join(Strip(f.app_secret)) = ""
    THEN "App ID, Tenant ID, and App Secret are required!"
    ELSE IF StrfDate(f.start_date) = "" \/ StrfDate(f.end_date) = ""
    THEN "Start Date and End Date are required!"
    ELSE IF f.save_path = ""
    THEN "Please select a folder to save the report!"
    ELSE IF /\ DetailMode(f)
            /\ \/ Join(Strip(f.sender_address)) = ""
               \/ Join(Strip(f.recipient_address)) = ""
               \/ Join(Strip(f.message_trace_id)) = ""
    THEN "Sender Address, Recipient Address, and Message Trace ID are mandatory for Message Trace Detail!"
    ELSE ""

\* lines 76-83: the token request
TokenRequest(f) ==
    [ method |-> "POST",
      url |-> "https://login.microsoftonline.com/" \o Join(Strip(f.tenant_id))
                \o "/oauth2/v2.0/token",
      data |-> << "grant_type=client_credentials",
                  "client_id=" \o Join(Strip(f.app_id)),
                  "client_secret=" \o Join(Strip(f.app_secret)),
                  "scope=https://outlook.office365.com/.default" >>,
      authorization |-> "" ]

\* lines 93-110: base_url and query_params by report type
ReportUrl(f) ==
    IF DetailMode(f)
    THEN "https://reports.office365.com/ecp/reportingwebservice/reporting.svc/MessageTraceDetail"
         \o "?"
         \o "$filter=MessageTraceId eq guid'" \o Join(Strip(f.message_trace_id)) \o "' and "
         \o "RecipientAddress eq '" \o Join(Strip(f.recipient_address)) \o "' and "
         \o "SenderAddress eq '" \o Join(Strip(f.sender_address)) \o "' and "
         \o "StartDate eq datetime'" \o StrfDate(f.start_date) \o "T00:00:00Z' and "
         \o "EndDate eq datetime'" \o StrfDate(f.end_date) \o "T23:59:59Z'"
    ELSE "https://reports.office365.com/ecp/reportingwebservice/reporting.svc/MessageTrace"
         \o "?"
         \o "$filter=StartDate eq datetime'" \o StrfDate(f.start_date) \o "T00:00:00Z' and "
         \o "EndDate eq datetime'" \o StrfDate(f.end_date) \o "T23:59:59Z'"

\* lines 92, 110-111: the report request
ReportRequest(f, tok) ==
    [ method |-> "GET", url |-> ReportUrl(f), data |-> <<>>,
      authorization |-> "Bearer " \o tok ]

\* variant: the stamp is strftime('%Y%m%d')
OutputPath_DateOnly(f, t) ==
    PathJoin(f.save_path, "MessageTraceReport_" \o "20250101" \o ".xml")

\* line 119: the output file of a write at second t
OutputPath(f, t) ==
    PathJoin(f.save_path, "MessageTraceReport_" \o StrfNow(t) \o ".xml")

(* ------------------------------ actions ------------------------------- *)

Init ==
    /\ pc = [s \in Submissions |-> "idle"]
    /\ form = [s \in Submissions |-> NoForm]
    /\ token = [s \in Submissions |-> ""]
    /\ response = [s \in Submissions |-> NoResponse]
    /\ dialogs = [s \in Submissions |-> <<>>]
    /\ http = [s \in Submissions |-> <<>>]
    /\ written = [s \in Submissions |-> <<>>]
    /\ label = ""
    /\ folders \in { {}, {DefaultSavePath} }
    /\ files = << >>
    /\ clock = 0

\* variant: the failed step is tried again after the dialog
Fail_Retry(s, msg) ==
    /\ dialogs' = [dialogs EXCEPT ![s] = Append(@, ErrorDialog(msg))]
    /\ pc' = pc

\* the except/return paths: an error dialog is shown, then the finally block
Fail(s, msg) ==
    /\ dialogs' = [dialogs EXCEPT ![s] = Append(@, ErrorDialog(msg))]
    /\ pc' = [pc EXCEPT ![s] = "finally"]

\* lines 139, 32-65: a click starts the worker, which reads the form and
\* runs the presence checks
Submit(s, f) ==
    /\ pc[s] = "idle"
    /\ IF s = 1 THEN TRUE ELSE pc[s - 1] # "idle"
    /\ form' = [form EXCEPT ![s] = f]
    /\ IF ValidationError(f) # ""
       THEN Fail(s, ValidationError(f))
       ELSE /\ pc' = [pc EXCEPT ![s] = "makedirs"]
            /\ UNCHANGED dialogs
    /\ UNCHANGED <<token, response, http, written, label, folders, files, clock>>

\* lines 67-69: create the destination folder when it is absent
MakeDirs(s) ==
    /\ pc[s] = "makedirs"
    /\ \/ /\ form[s].save_path \in folders
          /\ pc' = [pc EXCEPT ![s] = "label"]
          /\ UNCHANGED <<folders, dialogs>>
       \/ /\ form[s].save_path \notin folders
          /\ folders' = folders \cup {form[s].save_path}
          /\ pc' = [pc EXCEPT ![s] = "label"]
          /\ UNCHANGED dialogs
       \/ /\ form[s].save_path \notin folders
          /\ Fail(s, "An unexpected error occurred: " \o "OSError")
          /\ UNCHANGED folders
    /\ UNCHANGED <<form, token, response, http, written, label, files, clock>>

\* variant: the status line is not updated
SetLabel_Skip(s) ==
    /\ pc[s] = "label"
    /\ pc' = [pc EXCEPT ![s] = "token"]
    /\ UNCHANGED <<form, token, response, dialogs, http, written, label, folders, files, clock>>

\* lines 71-73
SetLabel(s) ==
    /\ pc[s] = "label"
    /\ label' = "Processing... Please wait."
    /\ pc' = [pc EXCEPT ![s] = "token"]
    /\ UNCHANGED <<form, token, response, dialogs, http, written, folders, files, clock>>

\* lines 75-89: the token exchange
TokenPost(s) ==
    /\ pc[s] = "token"
    /\ http' = [http EXCEPT ![s] = Append(@, TokenRequest(form[s]))]
    /\ \/ \* requests.post raises (transport failure)
          /\ Fail(s, "Request error: " \o "ConnectionError")
          /\ UNCHANGED token
       \/ \* raise_for_status raises on a 4xx/5xx status
          /\ \E st \in { x \in ErrorStatuses : x >= 400 } :
                Fail(s, "Request error: " \o ToString(st))
          /\ UNCHANGED token
       \/ \* the body is not JSON: response.json() raises
          /\ \E how \in { "Request error: ", "An unexpected error occurred: " } :
                Fail(s, how \o "JSONDecodeError")
          /\ UNCHANGED token
       \/ \* a JSON body, with or without an access_token
          \E js \in TokenJsons :
            LET tok == DictGet(js, "access_token") IN
              IF NotToken(tok)
              THEN /\ Fail(s, "Failed to retrieve OAuth token!")
                   /\ UNCHANGED token
              ELSE /\ token' = [token EXCEPT ![s] = tok[1]]
                   /\ pc' = [pc EXCEPT ![s] = "get"]
                   /\ UNCHANGED dialogs
    /\ UNCHANGED <<form, response, written, label, folders, files, clock>>

\* lines 91-116: build the filter and fetch the report
ReportGet(s) ==
    /\ pc[s] = "get"
    /\ http' = [http EXCEPT ![s] = Append(@, ReportRequest(form[s], token[s]))]
    /\ \/ /\ Fail(s, "Request error: " \o "ConnectionError")
          /\ UNCHANGED response
       \/ \E r \in [ status : ErrorStatuses, content : ErrorTexts ]
                     \cup [ status : {OkStatus}, content : Bodies ] :
            /\ response' = [response EXCEPT ![s] = r]
            /\ IF ReportFailed(r.status)
               THEN Fail(s, "API call failed: " \o r.content)
               ELSE /\ pc' = [pc EXCEPT ![s] = "save"]
                    /\ UNCHANGED dialogs
    /\ UNCHANGED <<form, token, written, label, folders, files, clock>>

\* lines 118-125: write the file, report success
SaveReport(s) ==
    /\ pc[s] = "save"
    /\ LET path == OutputPath(form[s], clock) IN
         /\ files' = (path :> response[s].content) @@ files
         /\ written' = [written EXCEPT ![s] = Append(@, path)]
         /\ dialogs' = [dialogs EXCEPT ![s] =
                          Append(@, InfoDialog("Report saved to " \o path))]
    /\ label' = "Processing complete!"
    /\ pc' = [pc EXCEPT ![s] = "reveal"]
    /\ UNCHANGED <<form, token, response, http, folders, clock>>

\* lines 127-128: subprocess.run returns, or raises (no explorer)
Reveal(s) ==
    /\ pc[s] = "reveal"
    /\ \/ /\ pc' = [pc EXCEPT ![s] = "finally"]
          /\ UNCHANGED dialogs
       \/ Fail(s, "An unexpected error occurred: " \o "FileNotFoundError")
    /\ UNCHANGED <<form, token, response, http, written, label, folders, files, clock>>

\* variant: the status line is left as it is
Finally_KeepLabel(s) ==
    /\ pc[s] = "finally"
    /\ pc' = [pc EXCEPT ![s] = "done"]
    /\ UNCHANGED <<form, token, response, dialogs, http, written, label, folders, files, clock>>

\* lines 134-136
Finally(s) ==
    /\ pc[s] = "finally"
    /\ label' = ""
    /\ pc' = [pc EXCEPT ![s] = "done"]
    /\ UNCHANGED <<form, token, response, dialogs, http, written, folders, files, clock>>

\* the wall clock advances
Tick ==
    /\ clock < MaxClock
    /\ clock' = clock + 1
    /\ UNCHANGED <<pc, form, token, response, dialogs, http, written, label, folders, files>>

\* the steps of background_task after the form was read
Worker(s) ==
    \/ MakeDirs(s)
    \/ SetLabel(s)
    \/ TokenPost(s)
    \/ ReportGet(s)
    \/ SaveReport(s)
    \/ Reveal(s)
    \/ Finally(s)

Next ==
    \/ \E s \in Submissions : \E f \in SomeForms : Submit(s, f)
    \/ \E s \in Submissions : Worker(s)
    \/ Tick

Spec == Init /\ [][Next]_vars

\* one submission at a time of any form
NextForm ==
    \/ \E f \in AllForms : Submit(1, f)
    \/ Worker(1)
    \/ Tick

SpecForm == Init /\ [][NextForm]_vars

\* submissions one after the other: a click only when no worker is running
NextSeq ==
    \/ \E s \in Submissions : \E f \in SomeForms :
          /\ \A o \in Submissions : pc[o] \in {"idle", "done"}
          /\ Submit(s, f)
    \/ \E s \in Submissions : Worker(s)
    \/ Tick

SpecSeq == Init /\ [][NextSeq]_vars

\* a started worker thread keeps running: the HTTP calls return or raise and
\* the dialogs are dismissed; nothing obliges the user to click
FairSpec == SpecSeq /\ \A s \in Submissions : WF_vars(Worker(s))


(* ------------------------- vocabulary of the claims ------------------- *)

Digit == << "0", "1", "2", "3", "4", "5", "6", "7", "8", "9" >>

TwoDigits(n) == Digit[(n \div 10) + 1] \o Digit[(n % 10) + 1]

FourDigits(n) == TwoDigits(n \div 100) \o TwoDigits(n % 100)

\* yyyy-MM-dd of a date
IsoDate(d) == FourDigits(d[1]) \o "-" \o TwoDigits(d[2]) \o "-" \o TwoDigits(d[3])

\* MessageTraceReport_<yyyyMMdd_HHmmss>.xml of second t of 2025-01-01
ExpectedFileName(t) ==
    "MessageTraceReport_20250101_" \o TwoDigits(t \div 3600)
        \o TwoDigits((t \div 60) % 60) \o TwoDigits(t % 60) \o ".xml"

ExpectedPath(f, t) == f.save_path \o "\\" \o ExpectedFileName(t)

ExpectedTraceUrl(f) ==
    "https://reports.office365.com/ecp/reportingwebservice/reporting.svc/MessageTrace"
        \o "?$filter=StartDate eq datetime'" \o IsoDate(f.start_date)
        \o "T00:00:00Z' and EndDate eq datetime'" \o IsoDate(f.end_date)
        \o "T23:59:59Z'"

\* a text that is empty once its surrounding whitespace is removed
Blank(t) == \A i \in 1..Len(t) : t[i] = " "

Started(s) == pc[s] # "idle"
Done(s) == pc[s] = "done"

Requests(s, m) == { i \in 1..Len(http[s]) : http[s][i].method = m }
Shown(s, k) == { i \in 1..Len(dialogs[s]) : dialogs[s][i].kind = k }

\* the token exchange of s was attempted and gave no usable token
TokenFailed(s) == Requests(s, "POST") # {} /\ pc[s] # "token" /\ token[s] = ""

\* the report request of s was answered with status 200
ReportSucceeded(s) == response[s].status = 200

\* s is at its last step: the step that ends it
Ends(s) == pc[s] # "done" /\ pc'[s] = "done"

\* s has updated the status line and has not finished
InProgress(s) ==
    \/ pc[s] \in {"token", "get", "save", "reveal"}
    \/ pc[s] = "finally" /\ http[s] # <<>>

\* an identity field or the destination folder is missing
Missing(f) ==
    \/ Blank(f.app_id) \/ Blank(f.tenant_id) \/ Blank(f.app_secret)
    \/ f.save_path = ""

DetailFieldMissing(f) ==
    Blank(f.sender_address) \/ Blank(f.recipient_address) \/ Blank(f.message_trace_id)

\* s was stopped by a presence check: an error dialog before any request and
\* before the destination folder was looked at
Blocked(s) ==
    /\ http[s] = <<>>
    /\ dialogs[s] # <<>>
    /\ dialogs[s][1].kind = "error"
    /\ dialogs[s][1].message # "An unexpected error occurred: OSError"

(* -------------------------------- claims ------------------------------ *)

\* C1: a submission whose token POST gave a token and whose report GET
\* returned 200 writes exactly one file: the write step creates or replaces
\* exactly the path <save_path>\MessageTraceReport_<stamp of the write
\* second>.xml with exactly the bytes of the response body and touches no
\* other file; no other step of any submission changes a file.
C1_OneFileExactBytes ==
    /\ [](\A s \in Submissions :
            ReportSucceeded(s) /\ pc[s] # "save" =>
                /\ token[s] # ""
                /\ Len(written[s]) = 1
                /\ written[s][1] \in DOMAIN files)
    /\ [][\A s \in Submissions :
            pc[s] = "save" /\ pc'[s] # "save" =>
                LET p == ExpectedPath(form[s], clock) IN
                  /\ written'[s] = <<p>>
                  /\ DOMAIN files' = DOMAIN files \cup {p}
                  /\ files'[p] = response[s].content
                  /\ \A q \in DOMAIN files \ {p} : files'[q] = files[q]]_vars
    /\ [][files' # files =>
            \E s \in Submissions : pc[s] = "save" /\ pc'[s] = "reveal"]_vars

C1_Witness ==
    \E s \in Submissions :
        /\ Done(s) /\ ReportSucceeded(s) /\ token[s] = "tokA"
        /\ written[s] = <<ExpectedPath(form[s], 1)>>
        /\ files[written[s][1]] = response[s].content

\* C2: a submission whose app id, tenant id or app secret is empty after
\* trimming, or whose destination folder path is empty, issues no HTTP
\* request at all and shows an error dialog.
C2_MissingFieldBlocks ==
    \A s \in Submissions :
        Started(s) /\ Missing(form[s]) =>
            /\ http[s] = <<>>
            /\ Shown(s, "error") = {1}
            /\ Shown(s, "info") = {}

C2_Witness ==
    \E s \in Submissions :
        /\ Done(s)
        /\ form[s].app_id = FilledText /\ form[s].tenant_id = FilledText
        /\ form[s].app_secret = <<" ">>
        /\ form[s].save_path # ""
        /\ http[s] = <<>> /\ Shown(s, "error") = {1}

\* C3: a submission whose token exchange fails (transport error, error
\* status, or a body with no or an empty access_token) never issues the
\* report GET, writes no file and shows an error dialog.
C3_TokenFailureStops ==
    \A s \in Submissions :
        TokenFailed(s) =>
            /\ Requests(s, "GET") = {}
            /\ written[s] = <<>>
            /\ Shown(s, "error") = {1}
            /\ Shown(s, "info") = {}

C3_Witness ==
    \E s \in Submissions :
        /\ Done(s) /\ TokenFailed(s)
        /\ dialogs[s][1].message = "Failed to retrieve OAuth token!"

\* C4: a submission whose report GET is answered with a status other than
\* 200 writes no file and shows an error dialog whose message carries the
\* raw response text.
C4_Non200WritesNothing ==
    \A s \in Submissions :
        response[s].status \notin {0, 200} =>
            /\ written[s] = <<>>
            /\ Shown(s, "error") = {1}
            /\ Shown(s, "info") = {}
            /\ dialogs[s][1].message = "API call failed: " \o response[s].content

C4_Witness ==
    \E s \in Submissions :
        /\ Done(s) /\ response[s].status = 204
        /\ written[s] = <<>> /\ Shown(s, "error") = {1}

\* C5: in detail mode a submission with an empty (after trimming) sender,
\* recipient or trace id is stopped with an error dialog before any request;
\* with any other report type the three fields never stop the submission and
\* never reach the request, which goes to MessageTrace with a filter of
\* StartDate and EndDate only.
C5_DetailFieldsByMode ==
    \A s \in Submissions :
        Started(s) =>
            LET f == form[s] IN
              /\ f.report_type = "Message Trace Detail" /\ DetailFieldMissing(f) =>
                    /\ http[s] = <<>>
                    /\ Shown(s, "error") = {1}
              /\ f.report_type # "Message Trace Detail" =>
                    /\ ~Missing(f) => ~Blocked(s)
                    /\ \A i \in Requests(s, "GET") :
                          http[s][i].url = ExpectedTraceUrl(f)

C5_Witness ==
    \E s \in Submissions :
        /\ Done(s)
        /\ form[s].report_type = "Message Trace"
        /\ form[s].sender_address = FilledText
        /\ form[s].recipient_address = <<" ">>
        /\ form[s].message_trace_id = <<>>
        /\ Requests(s, "GET") = {2}
        /\ written[s] # <<>>

\* C6: two successful submissions, the second started after the first has
\* finished, leave two distinct files, each holding the response bytes of
\* its submission.
C6_DistinctFiles ==
    \A s1, s2 \in Submissions :
        s1 # s2 /\ Done(s1) /\ Done(s2) /\ written[s1] # <<>> /\ written[s2] # <<>> =>
            /\ written[s1][1] # written[s2][1]
            /\ files[written[s1][1]] = response[s1].content
            /\ files[written[s2][1]] = response[s2].content

\* C7: every started submission ends, and the step that ends it leaves the
\* status line empty, whatever the outcome (submissions one after the other).
C7_EndsWithClearedStatus ==
    /\ \A s \in Submissions : [](Started(s) => <>Done(s))
    /\ [][\A s \in Submissions : Ends(s) => label' = ""]_vars

C7_Witness ==
    \E s \in Submissions :
        /\ Done(s) /\ label = ""
        /\ Shown(s, "info") = {1}
        /\ Shown(s, "error") = {2}

\* C8 as stated: nothing of the persistence step (creating the destination
\* folder, writing the file) happens before the token exchange and the report
\* fetch of that submission have succeeded.
C8_PersistenceLast ==
    [][folders' # folders \/ files' # files =>
            \E s \in Submissions :
                pc'[s] # pc[s] /\ token[s] # "" /\ ReportSucceeded(s)]_vars

\* C8 amended: the order is folder creation (when absent), token exchange,
\* filter construction and report fetch, file write, each at most once: the
\* folder is created before the token POST, the GET is issued only with the
\* token of a successful exchange, the file is written only after a 200
\* answer, and after an error dialog the submission issues no request and
\* writes nothing.
C8_StrictOrder ==
    /\ [](\A s \in Submissions :
            /\ Len(http[s]) <= 2
            /\ Requests(s, "POST") \subseteq {1}
            /\ Requests(s, "GET") \subseteq {2}
            /\ Requests(s, "GET") # {} =>
                  token[s] # "" /\ http[s][2].authorization = "Bearer " \o token[s]
            /\ Len(written[s]) <= 1
            /\ written[s] # <<>> => ReportSucceeded(s) /\ Requests(s, "GET") = {2}
            /\ Shown(s, "error") # {} => pc[s] \in {"finally", "done"})
    /\ [][folders' # folders =>
            \E s \in Submissions :
                /\ pc[s] = "makedirs" /\ pc'[s] = "label" /\ http[s] = <<>>
                /\ folders' = folders \cup {form[s].save_path}]_vars
    /\ [][\A s \in Submissions :
            pc[s] \in {"finally", "done"} =>
                http'[s] = http[s] /\ written'[s] = written[s]]_vars

C8_Witness ==
    \E s \in Submissions :
        /\ Done(s) /\ TokenFailed(s)
        /\ form[s].save_path \in folders
        /\ \A o \in Submissions : o # s => pc[o] = "idle"

\* C9 as stated: the status line is non-empty whenever a submission is past
\* its status update and not finished.
C9_StatusWhileInProgress ==
    (\E s \in Submissions : InProgress(s)) => label # ""

\* C9 amended: the status update of a submission makes the status line
\* non-empty, and while the submission is in progress the line is emptied
\* only by the completion of another submission, which does empty it.
C9_ClearedOnlyByOthers ==
    /\ [][\A s \in Submissions :
            Ends(s) /\ (\E o \in Submissions \ {s} : InProgress(o)) => label' = ""]_vars
    /\ [][\A s \in Submissions :
            pc[s] = "label" /\ pc'[s] # "label" => label' # ""]_vars
    /\ [][\A s \in Submissions :
            InProgress(s) /\ InProgress(s)' /\ label # "" /\ label' = "" =>
                \E o \in Submissions \ {s} : Ends(o)]_vars
    /\ [][\A s \in Submissions :
            InProgress(s) /\ ~InProgress(s)' => Ends(s)]_vars

C9_Witness ==
    \E s, o \in Submissions :
        /\ s # o /\ InProgress(s) /\ Done(o) /\ label = ""

\* C10: a finished submission has shown exactly one dialog, the success
\* dialog if and only if it wrote the file, and no submission ever shows both
\* kinds.
C10_OneOutcomeDialog ==
    \A s \in Submissions :
        /\ Shown(s, "info") = {} \/ Shown(s, "error") = {}
        /\ Done(s) =>
              /\ Len(dialogs[s]) = 1
              /\ dialogs[s][1].kind = "info" <=> written[s] # <<>>

====
